---- MODULE Spec2Model ----
(***************************************************************************)
(* scene-viewer (src/src/lib.rs): the free-flight camera / input           *)
(* integrator of SceneViewer::handle_event and the event-loop closure of   *)
(* main that dispatches to it.                                             *)
(*                                                                         *)
(* Numbers.  f32/f64 quantities are kept in fixed point:                   *)
(*   angles      in units of 0.0001 rad (the epsilon of the pitch clamp),  *)
(*   sin/cos and basis-vector components in units of 0.0001,                *)
(*   positions   in units of 0.0001 world units,                           *)
(*   pointer coordinates / deltas in units of 0.1 pointer unit,            *)
(*   durations and instants in milliseconds,                               *)
(*   speeds      in world units per second.                                *)
(***************************************************************************)
EXTENDS Integers, Sequences, FiniteSets, Bags, TLC

-----------------------------------------------------------------------------
(* Fixed-point scales and the program's numeric constants.                 *)

\* units per radian / per 1.0 (0.0001 is one unit)
Unit == 10000
\* model units per pointer unit: one unit of pointer motion turns one angle unit
PointerUnit == Unit \div 1000
\* const TAU: f32 = PI * 2.0
TAU == 62832
\* std::f32::consts::FRAC_PI_2
FRAC_PI_2 == 15708
\* std::f32::consts::FRAC_PI_4
FRAC_PI_4 == 7854
\* std::f32::consts::FRAC_PI_8
FRAC_PI_8 == 3927
\* 0.0001 in the pitch clamp
EPSILON == 1
\* mouse_delta / 1000.0
LOOK_DIVISOR == 1000
\* (current - prev) / 4.0
ABSOLUTE_DIVISOR == 4
\* Duration::from_secs(1), in ms
ONE_SECOND == 1000
\* --walk / --run defaults
DEFAULT_WALK == 10
DEFAULT_RUN == 50

\* platform::Scancodes (Linux evdev codes)
SC_ESCAPE == 1
SC_Q == 16
SC_W == 17
SC_P == 25
SC_A == 30
SC_S == 31
SC_D == 32
SC_SHIFT == 42
SC_PERIOD == 52
\* a key the viewer gives no meaning to
SC_OTHER == SC_PERIOD + 5

\* Option<T>: None, or Some(x) holding x
None == <<>>
Some(x) == <<x>>

-----------------------------------------------------------------------------
(* Bounds of the model.                                                    *)

\* the clock stops the model at this instant (ms)
MaxTime == 2000
\* |camera_yaw| is explored up to this many full turns
MaxTurns == 2

-----------------------------------------------------------------------------
(* Arithmetic helpers.                                                     *)

Abs(x) == IF x < 0 THEN -x ELSE x

\* division rounding toward zero, as a float product cast to fixed point
Quot(a, b) == IF a >= 0 THEN a \div b ELSE -((-a) \div b)

\* fixed-point product of two values scaled by Unit
Mul(a, b) == Quot(a * b, Unit)

\* sin on [0, pi/2] by its Taylor polynomial of degree 7
SinQ(x) ==
    LET x2 == Mul(x, x)
        t3 == Mul(x2, x) \div 6
        t5 == Mul(t3, x2) \div 20
        t7 == Mul(t5, x2) \div 42
    IN  x - t3 + t5 - t7

\* f32::sin of an angle given in angle units
Sin(a) ==
    LET r == a % TAU
    IN  IF r <= FRAC_PI_2 THEN SinQ(r)
        ELSE IF r <= 2 * FRAC_PI_2 THEN SinQ(2 * FRAC_PI_2 - r)
        ELSE IF r <= 3 * FRAC_PI_2 THEN -SinQ(r - 2 * FRAC_PI_2)
        ELSE -SinQ(TAU - r)

\* f32::cos of an angle given in angle units
Cos(a) == Sin(a + FRAC_PI_2)

VecAdd(u, v) == <<u[1] + v[1], u[2] + v[2], u[3] + v[3]>>
VecSub(u, v) == <<u[1] - v[1], u[2] - v[2], u[3] - v[3]>>
VecNeg(u) == <<-u[1], -u[2], -u[3]>>

\* basis * velocity * delta_time.as_secs_f32(): basis in 0.0001, velocity in
\* units/s, dt in ms; the result is a displacement in position units
Displacement(basis, velocity, dt) ==
    <<Quot(basis[1] * velocity * dt, 1000),
      Quot(basis[2] * velocity * dt, 1000),
      Quot(basis[3] * velocity * dt, 1000)>>

-----------------------------------------------------------------------------
(* The state.                                                              *)

VARIABLES
    \* the command line: std::env::args_os()
    args,
    \* SceneViewer fields
    present_mode,            \* --vsync
    absolute_mouse,          \* --absolute-mouse
    walk_speed,              \* --walk
    run_speed,               \* --run
    scancode_status,         \* FastHashMap<u32, bool>: a function on the inserted codes
    camera_pitch,
    camera_yaw,
    camera_location,         \* Vec3A as <<x, y, z>>
    previous_profiling_stats,\* Option<..>: TRUE when Some
    timestamp_last_second,
    timestamp_last_frame,
    frame_times,             \* histogram::Histogram as a bag of samples
    last_mouse_delta,        \* Option<DVec2>: None or Some(<<x, y>>)
    grabbed,                 \* grabber.grabbed()
    \* locals of main captured by the event-loop closure, and its collaborators
    suspended,
    surface,                 \* Option<Arc<Surface>>: TRUE when Some
    redraw_requested,        \* window.request_redraw() is pending
    camera_data,             \* the pose last handed to renderer.set_camera_data
    panicked,                \* an unwrap() failed: the process is gone
    lifecycle,               \* "running", "exiting" (the loop was told to exit),
                             \* "failed" (std::process::exit(1) in new) or
                             \* "aborted" (an unwrap() failed in new)
    stdout,                  \* what the last AboutToWait printed
    control_flow,            \* event_loop_window_target.control_flow()
    last_user_control_mode,
    stored_surface_info,     \* its size, as <<width, height>>
    \* history variables (observers only; no action reads them in a guard)
    event,                   \* the kind of the event handled last
    fresh_grab,              \* capture was acquired and no captured sample followed yet
    tick_pose,               \* the pose when the last AboutToWait returned
    ticks_since_render,      \* AboutToWait runs since the last handled render (-1: none yet)
    gap,                     \* ticks_since_render as found by the last handled render
    captured_sample,         \* the last pointer sample handled while captured
                             \* in absolute mode
    key_log                  \* per scancode, whether its last key event was Pressed

viewer == <<args, present_mode, absolute_mouse, walk_speed, run_speed, scancode_status, camera_pitch,
            camera_yaw, camera_location, previous_profiling_stats,
            timestamp_last_second, timestamp_last_frame, frame_times,
            last_mouse_delta, grabbed>>
main_locals == <<control_flow, last_user_control_mode, stored_surface_info>>
loop == <<suspended, surface, redraw_requested, camera_data, panicked, lifecycle,
          stdout, main_locals>>
history == <<event, fresh_grab, tick_pose, ticks_since_render, gap, captured_sample,
             key_log>>
vars == <<viewer, loop, history>>

config == <<args, present_mode, absolute_mouse, walk_speed, run_speed>>

\* the event loop is alive: no panic, no exit
Running == ~panicked /\ lifecycle = "running"

\* (position, yaw, pitch)
Pose == <<camera_location, camera_yaw, camera_pitch>>

-----------------------------------------------------------------------------
(* Pure functions of the viewer.                                           *)

\* fn button_pressed(map, key): map.get(&key).map_or(false, |b| *b)
button_pressed(map, key) == IF key \in DOMAIN map THEN map[key] ELSE FALSE

\* a mutant of MapInsert: the insert forgets the other keys
MapInsertAlone(map, key, value) == [c \in {key} |-> value]

\* HashMap::insert
MapInsert(map, key, value) ==
    [c \in (DOMAIN map) \cup {key} |-> IF c = key THEN value ELSE map[c]]

\* PhysicalKeyExtScancode::to_scancode: None for a key without a scancode
to_scancode(physical_key) ==
    IF physical_key.kind = "Code" THEN Some(physical_key.scancode) ELSE None

\* PhysicalKey::Code(..) of the key with scancode c
KeyOf(c) == [kind |-> "Code", scancode |-> c]
\* PhysicalKey::Unidentified(NativeKeyCode::Unidentified)
UnidentifiedKey == [kind |-> "Unidentified", scancode |-> 0]

\* Mat3A::from_euler(XYZ, -pitch, -yaw, 0.0).transpose(), as its three columns
Rotation(yaw, pitch) ==
    LET cy == Cos(yaw)  sy == Sin(yaw)
        cp == Cos(pitch)  sp == Sin(pitch)
    IN  [x_axis |-> <<cy, 0, -sy>>,
         y_axis |-> <<Mul(sp, sy), cp, Mul(sp, cy)>>,
         z_axis |-> <<Mul(cp, sy), -sp, Mul(cp, cy)>>]

\* let forward = -rotation.z_axis
Forward(yaw, pitch) == VecNeg(Rotation(yaw, pitch).z_axis)
\* let up = rotation.y_axis
Up(yaw, pitch) == Rotation(yaw, pitch).y_axis
\* let side = -rotation.x_axis
Side(yaw, pitch) == VecNeg(Rotation(yaw, pitch).x_axis)

\* the velocity selected by the run modifier
Velocity(map, walk, run) == IF button_pressed(map, SC_SHIFT) THEN run ELSE walk

\* the movement keys currently held
HeldMovement(map) == {c \in {SC_W, SC_S, SC_A, SC_D, SC_Q} : button_pressed(map, c)}

\* a mutant of Moved: a diagonal (forward + strafe right) is normalised to the
\* length of a single step
MovedNormalised(loc, map, yaw, pitch, velocity, dt) ==
    LET f == Displacement(Forward(yaw, pitch), velocity, dt)
        s == Displacement(Side(yaw, pitch), velocity, dt)
        d == VecSub(f, s)
    IN  IF HeldMovement(map) = {SC_W, SC_D}
        THEN VecAdd(loc, <<Quot(d[1] * 7071, Unit), Quot(d[2] * 7071, Unit),
                           Quot(d[3] * 7071, Unit)>>)
        ELSE IF SC_W \in HeldMovement(map) THEN VecAdd(loc, f)
        ELSE IF SC_D \in HeldMovement(map) THEN VecSub(loc, s)
        ELSE loc

\* a mutant of Moved: the back key moves forward as well
MovedBackForward(loc, map, yaw, pitch, velocity, dt) ==
    LET f == Displacement(Forward(yaw, pitch), velocity, dt)
        s == Displacement(Side(yaw, pitch), velocity, dt)
        u == Displacement(Up(yaw, pitch), velocity, dt)
        l1 == IF button_pressed(map, SC_W) THEN VecAdd(loc, f) ELSE loc
        l2 == IF button_pressed(map, SC_S) THEN VecAdd(l1, f) ELSE l1
        l3 == IF button_pressed(map, SC_A) THEN VecAdd(l2, s) ELSE l2
        l4 == IF button_pressed(map, SC_D) THEN VecSub(l3, s) ELSE l3
        l5 == IF button_pressed(map, SC_Q) THEN VecAdd(l4, u) ELSE l4
    IN  l5

\* the five movement keys applied in the order of the code
Moved(loc, map, yaw, pitch, velocity, dt) ==
    LET f == Displacement(Forward(yaw, pitch), velocity, dt)
        s == Displacement(Side(yaw, pitch), velocity, dt)
        u == Displacement(Up(yaw, pitch), velocity, dt)
        l1 == IF button_pressed(map, SC_W) THEN VecAdd(loc, f) ELSE loc
        l2 == IF button_pressed(map, SC_S) THEN VecSub(l1, f) ELSE l1
        l3 == IF button_pressed(map, SC_A) THEN VecAdd(l2, s) ELSE l2
        l4 == IF button_pressed(map, SC_D) THEN VecSub(l3, s) ELSE l3
        l5 == IF button_pressed(map, SC_Q) THEN VecAdd(l4, u) ELSE l4
    IN  l5

\* (mouse_delta / 1000.0) as f32, in angle units
LookAngle(d) == Quot(d * Unit, LOOK_DIVISOR * PointerUnit)

\* a mutant of WrapYaw: yaw is reduced modulo TAU
WrapYawModulo(yaw) == yaw % TAU

\* if yaw < 0 { yaw += TAU } else if yaw >= TAU { yaw -= TAU }
WrapYaw(yaw) ==
    IF yaw < 0 THEN yaw + TAU
    ELSE IF yaw >= TAU THEN yaw - TAU
    ELSE yaw

\* a mutant of ClampPitch: the clamp reaches the poles
ClampPitchAtPole(pitch) ==
    IF pitch < -FRAC_PI_2 THEN -FRAC_PI_2
    ELSE IF pitch > FRAC_PI_2 THEN FRAC_PI_2
    ELSE pitch

\* f32::clamp(-FRAC_PI_2 + 0.0001, FRAC_PI_2 - 0.0001)
ClampPitch(pitch) ==
    IF pitch < -FRAC_PI_2 + EPSILON THEN -FRAC_PI_2 + EPSILON
    ELSE IF pitch > FRAC_PI_2 - EPSILON THEN FRAC_PI_2 - EPSILON
    ELSE pitch

\* a mutant of AbsoluteDelta: the difference is halved
AbsoluteDeltaHalved(cur, prev) ==
    <<Quot(cur[1] - prev[1], 2), Quot(cur[2] - prev[2], 2)>>

\* (DVec2::new(delta_x, delta_y) - prev) / 4.0
AbsoluteDelta(cur, prev) ==
    <<Quot(cur[1] - prev[1], ABSOLUTE_DIVISOR), Quot(cur[2] - prev[2], ABSOLUTE_DIVISOR)>>

\* let camera_default = [3.0, 3.0, 3.0, -FRAC_PI_8, FRAC_PI_4]
camera_default == <<3 * Unit, 3 * Unit, 3 * Unit, -FRAC_PI_8, FRAC_PI_4>>

-----------------------------------------------------------------------------
(* Text.  A &str is a sequence of one-character strings; an f32 is printed *)
(* and parsed digit by digit, in its fixed-point units of 0.0001.          *)

\* Result<T, E>
Ok(x) == [ok |-> TRUE, val |-> x]
Err(e) == [ok |-> FALSE, err |-> e]

DigitChars == <<"0", "1", "2", "3", "4", "5", "6", "7", "8", "9">>
UpperChars == <<"A", "B", "C", "D", "E", "F", "G", "H", "I", "J", "K", "L", "M",
                "N", "O", "P", "Q", "R", "S", "T", "U", "V", "W", "X", "Y", "Z">>
LowerChars == <<"a", "b", "c", "d", "e", "f", "g", "h", "i", "j", "k", "l", "m",
                "n", "o", "p", "q", "r", "s", "t", "u", "v", "w", "x", "y", "z">>

IsDigit(c) == \E i \in 1..Len(DigitChars) : DigitChars[i] = c
DigitValue(c) == (CHOOSE i \in 1..Len(DigitChars) : DigitChars[i] = c) - 1

\* char::to_lowercase
ToLowerChar(c) ==
    IF \E i \in 1..Len(UpperChars) : UpperChars[i] = c
    THEN LowerChars[CHOOSE i \in 1..Len(UpperChars) : UpperChars[i] = c]
    ELSE c

\* str::to_lowercase
to_lowercase(str) == [i \in 1..Len(str) |-> ToLowerChar(str[i])]

\* str::trim
RECURSIVE trim(_)
trim(str) ==
    IF str = <<>> THEN str
    ELSE IF Head(str) = " " THEN trim(Tail(str))
    ELSE IF str[Len(str)] = " " THEN trim(SubSeq(str, 1, Len(str) - 1))
    ELSE str

\* str::split(','): the pieces between the commas, empty ones included
RECURSIVE split(_)
split(str) ==
    IF \A i \in 1..Len(str) : str[i] # ","
    THEN <<str>>
    ELSE LET i == CHOOSE j \in 1..Len(str) :
                     str[j] = "," /\ \A k \in 1..(j - 1) : str[k] # ","
         IN  <<SubSeq(str, 1, i - 1)>> \o split(SubSeq(str, i + 1, Len(str)))

\* the decimal digits of a natural number
RECURSIVE NatDigits(_)
NatDigits(n) ==
    IF n < 10 THEN <<DigitChars[n + 1]>>
    ELSE NatDigits(n \div 10) \o <<DigitChars[(n % 10) + 1]>>

\* the value of a sequence of digits
RECURSIVE DigitsNat(_)
DigitsNat(ds) ==
    IF ds = <<>> THEN 0
    ELSE 10 * DigitsNat(SubSeq(ds, 1, Len(ds) - 1)) + DigitValue(ds[Len(ds)])

RECURSIVE StripZeros(_)
StripZeros(ds) ==
    IF ds # <<>> /\ ds[Len(ds)] = "0" THEN StripZeros(SubSeq(ds, 1, Len(ds) - 1))
    ELSE ds

\* the four fractional digits of a value below 1.0, trailing zeros dropped
FracDigits(frac) ==
    StripZeros(<<DigitChars[(frac \div 1000) + 1], DigitChars[((frac \div 100) % 10) + 1],
                 DigitChars[((frac \div 10) % 10) + 1], DigitChars[(frac % 10) + 1]>>)

\* impl Display for f32: the shortest decimal that parses back to the value
\* ("3" for 3.0, "-0.3927" for -0.3927)
FormatF32(n) ==
    LET a == Abs(n)
        whole == NatDigits(a \div Unit)
        frac == FracDigits(a % Unit)
    IN  (IF n < 0 THEN <<"-">> ELSE <<>>)
        \o whole
        \o (IF frac = <<>> THEN <<>> ELSE <<".">> \o frac)

\* impl FromStr for f32, for a decimal without exponent: [+-] digits [. digits],
\* rounded to the nearest representable value (0.0001)
ParseF32(str) ==
    LET signed == str # <<>> /\ Head(str) \in {"-", "+"}
        body == IF signed THEN Tail(str) ELSE str
        dots == {i \in 1..Len(body) : body[i] = "."}
        dot == IF dots = {} THEN Len(body) + 1 ELSE CHOOSE i \in dots : TRUE
        whole == SubSeq(body, 1, dot - 1)
        frac == SubSeq(body, dot + 1, Len(body))
        padded == frac \o <<"0", "0", "0", "0", "0">>
        kept == DigitsNat(SubSeq(padded, 1, 4))
        up == IF DigitValue(padded[5]) >= 5 THEN 1 ELSE 0
        magnitude == DigitsNat(whole) * Unit + kept + up
    IN  IF /\ Cardinality(dots) <= 1
           /\ Len(whole) + Len(frac) >= 1
           /\ \A i \in 1..Len(whole) : IsDigit(whole[i])
           /\ \A i \in 1..Len(frac) : IsDigit(frac[i])
        THEN Ok(IF signed /\ Head(str) = "-" THEN -magnitude ELSE magnitude)
        ELSE Err("invalid float literal")

RECURSIVE JoinComma(_)
JoinComma(fields) ==
    IF Len(fields) = 1 THEN fields[1]
    ELSE fields[1] \o <<",">> \o JoinComma(Tail(fields))

\* a mutant of PrintPose: yaw is printed before pitch
PrintPoseYawFirst(loc, pitch, yaw) ==
    JoinComma(<<FormatF32(loc[1]), FormatF32(loc[2]), FormatF32(loc[3]),
                FormatF32(yaw), FormatF32(pitch)>>)

\* println!("{x},{y},{z},{pitch},{yaw}", ..): the line printed for a pose
PrintPose(loc, pitch, yaw) ==
    JoinComma(<<FormatF32(loc[1]), FormatF32(loc[2]), FormatF32(loc[3]),
                FormatF32(pitch), FormatF32(yaw)>>)

\* fn extract_vsync(value): the three arms of its match
extract_vsync(value) ==
    LET lower == to_lowercase(value)
    IN  IF lower = <<"i", "m", "m", "e", "d", "i", "a", "t", "e">> THEN Ok("Immediate")
        ELSE IF lower = <<"f", "i", "f", "o">> THEN Ok("Fifo")
        ELSE IF lower = <<"m", "a", "i", "l", "b", "o", "x">> THEN Ok("Mailbox")
        ELSE Err("invalid msaa count")

\* args.value_from_str::<f32>(key).unwrap_or(default), kept in whole units per
\* second; arg is the option's value, None when the option is absent
SpeedArg(arg, default) ==
    IF arg = None THEN default
    ELSE LET parsed == ParseF32(arg[1])
         IN  IF parsed.ok THEN Quot(parsed.val, Unit) ELSE default

\* fn extract_array::<5>(value, default)
extract_array(value, default) ==
    LET pieces == split(value)
        parsed == [i \in 1..Len(pieces) |-> ParseF32(trim(pieces[i]))]
    IN  IF Len(pieces) # Len(default) THEN Err("Mismatched argument count")
        ELSE IF \E i \in 1..Len(pieces) : ~parsed[i].ok
        THEN Err("Cannot parse argument number")
        ELSE Ok([i \in 1..Len(pieces) |-> parsed[i].val])

-----------------------------------------------------------------------------
(* Construction: SceneViewer::new and the locals main sets up before the   *)
(* event loop runs (setup has built the Grabber, not grabbed).             *)

\* camera_pitch: camera_info[3], camera_yaw: camera_info[4],
\* camera_location: Vec3A::new(camera_info[0], camera_info[1], camera_info[2])
CameraOf(camera_info) ==
    [location |-> <<camera_info[1], camera_info[2], camera_info[3]>>,
     pitch |-> camera_info[4],
     yaw |-> camera_info[5]]

SceneViewerNew(absolute, camera_info, walk, run) ==
    /\ absolute_mouse = absolute
    /\ walk_speed = walk
    /\ run_speed = run
    /\ scancode_status = << >>
    /\ camera_pitch = CameraOf(camera_info).pitch
    /\ camera_yaw = CameraOf(camera_info).yaw
    /\ camera_location = CameraOf(camera_info).location
    /\ previous_profiling_stats = FALSE
    /\ timestamp_last_second = 0
    /\ timestamp_last_frame = 0
    /\ frame_times = EmptyBag
    /\ last_mouse_delta = None
    /\ grabbed = FALSE

\* window.inner_size() when main starts
WINDOW_SIZE == <<1280, 720>>

MainSetup ==
    /\ suspended = FALSE
    /\ last_user_control_mode = "Poll"
    /\ stored_surface_info = WINDOW_SIZE
    /\ surface = TRUE
    /\ redraw_requested = FALSE
    /\ camera_data = None
    /\ panicked = FALSE
    /\ stdout = [report |-> None, pose |-> None]

HistoryInit ==
    /\ event = "none"
    /\ fresh_grab = FALSE
    /\ tick_pose = Pose
    /\ ticks_since_render = -1
    /\ gap = -1
    /\ captured_sample = None
    /\ key_log = << >>

\* a command line without options
NoArgs == [absolute_mouse |-> FALSE, camera |-> None, walk |-> None, run |-> None,
           vsync |-> None]

\* the process from its start to the first event: SceneViewer::new parses the
\* command line a (an option is None when absent, Some(value) when given),
\* then main sets up the loop
\* flow is the control flow the event loop is created with
StartWith(a, flow) ==
    LET vsync == IF a.vsync = None THEN Ok("Immediate") ELSE extract_vsync(a.vsync[1])
        camera_info == IF a.camera = None THEN Ok(camera_default)
                       ELSE extract_array(a.camera[1], camera_default)
    IN  /\ args = a
        /\ lifecycle = IF ~vsync.ok THEN "failed"
                       ELSE IF ~camera_info.ok THEN "aborted"
                       ELSE "running"
        /\ present_mode = IF vsync.ok THEN vsync.val ELSE "Immediate"
        /\ SceneViewerNew(a.absolute_mouse,
                          IF camera_info.ok THEN camera_info.val ELSE camera_default,
                          SpeedArg(a.walk, DEFAULT_WALK), SpeedArg(a.run, DEFAULT_RUN))
        /\ MainSetup
        /\ control_flow = flow
        /\ HistoryInit

\* the same, with an event loop created polling
Start(a) == StartWith(a, "Poll")

-----------------------------------------------------------------------------
(* The event handlers.  Each action is one run of the event-loop closure   *)
(* of main on one event: handle_surface, the suspended check, then         *)
(* SceneViewer::handle_event.                                              *)

\* an unwrap() on None / Err: the process aborts
Panic(kind) ==
    /\ panicked' = TRUE
    /\ event' = kind
    /\ UNCHANGED <<main_locals, viewer, suspended, surface, redraw_requested, camera_data,
                   lifecycle, stdout, fresh_grab, tick_pose, ticks_since_render, gap,
                   captured_sample, key_log>>

\* a mutant of ReportDue: the report is printed at one second sharp
ReportDueAtSecond(elapsed_since_second) == elapsed_since_second >= ONE_SECOND

\* if elapsed_since_second > Duration::from_secs(1)
ReportDue(elapsed_since_second) == elapsed_since_second > ONE_SECOND

\* the figures of the println! of the frame report: frames, seconds window,
\* Min and Max of the histogram
\* (frame_times.minimum() and .maximum() are Err on an empty histogram)
Report(histogram, elapsed_since_second) ==
    LET samples == BagToSet(histogram)
    IN  [count |-> BagCardinality(histogram),
         elapsed |-> elapsed_since_second,
         minimum |-> IF samples = {} THEN Err("Empty")
                     ELSE Ok(CHOOSE x \in samples : \A y \in samples : x <= y),
         maximum |-> IF samples = {} THEN Err("Empty")
                     ELSE Ok(CHOOSE x \in samples : \A y \in samples : x >= y)]

\* a mutant of Increment: the tick's sample is not recorded before the report
IncrementSkipped(histogram, sample) == histogram

\* self.frame_times.increment(delta_time.as_micros() as u64)
Increment(histogram, sample) == histogram (+) SetToBag({sample})

\* a mutant of TickGrab: Escape held at a tick leaves capture alone
TickGrabKept(map, is_grabbed) == is_grabbed

\* if button_pressed(&self.scancode_status, Scancodes::ESCAPE)
\* { grabber.request_ungrab(window) }: the capture state afterwards
TickGrab(map, is_grabbed) == IF button_pressed(map, SC_ESCAPE) THEN FALSE ELSE is_grabbed

\* Event::AboutToWait after delta_time ms; write_ok: whether profile.json can be written
AboutToWait(delta_time, write_ok) ==
    LET now == timestamp_last_frame + delta_time
        counted == Increment(frame_times, delta_time)
        elapsed_since_second == now - timestamp_last_second
        velocity == Velocity(scancode_status, walk_speed, run_speed)
    IN  /\ Running
        /\ now <= MaxTime
        /\ IF \/ /\ ReportDue(elapsed_since_second)
                 /\ ~Report(counted, elapsed_since_second).minimum.ok
              \/ /\ button_pressed(scancode_status, SC_P)
                 /\ previous_profiling_stats
                 /\ ~write_ok
           THEN Panic("AboutToWait")
           ELSE /\ IF ReportDue(elapsed_since_second)
                      THEN /\ timestamp_last_second' = now
                           /\ frame_times' = EmptyBag
                      ELSE /\ frame_times' = counted
                           /\ UNCHANGED timestamp_last_second
                /\ timestamp_last_frame' = now
                /\ camera_location' = Moved(camera_location, scancode_status, camera_yaw,
                                            camera_pitch, velocity, delta_time)
                /\ stdout' =
                       [report |-> IF ReportDue(elapsed_since_second)
                                   THEN Some(Report(counted, elapsed_since_second))
                                   ELSE None,
                        pose |-> IF button_pressed(scancode_status, SC_PERIOD)
                                 THEN Some(PrintPose(camera_location', camera_pitch,
                                                     camera_yaw))
                                 ELSE None]
                /\ grabbed' = TickGrab(scancode_status, grabbed)
                /\ redraw_requested' = TRUE
                /\ event' = "AboutToWait"
                /\ tick_pose' = <<camera_location', camera_yaw, camera_pitch>>
                /\ ticks_since_render' =
                       IF ticks_since_render < 0 THEN -1 ELSE ticks_since_render + 1
                /\ UNCHANGED <<main_locals, config, scancode_status, camera_pitch,
                               camera_yaw,
                               previous_profiling_stats, last_mouse_delta, suspended,
                               surface, camera_data, panicked, lifecycle, fresh_grab,
                               gap, captured_sample, key_log>>

\* WindowEvent::RedrawRequested; platform: the window system asked for it;
\* stats: what graph.execute returns is Some
RedrawRequested(platform, stats) ==
    /\ Running
    /\ redraw_requested \/ platform
    /\ IF suspended
       THEN \* "We need to block all updates": the closure returns
            /\ redraw_requested' = FALSE
            /\ event' = "RedrawSkipped"
            /\ UNCHANGED <<main_locals, viewer, suspended, surface, camera_data, panicked,
                           lifecycle, stdout, fresh_grab, tick_pose,
                           ticks_since_render, gap, captured_sample, key_log>>
       ELSE IF ~surface
       THEN Panic("RedrawRequested")
       ELSE /\ camera_data' = Some(Pose)
            /\ previous_profiling_stats' = stats
            /\ redraw_requested' = FALSE
            /\ event' = "RedrawRequested"
            /\ gap' = ticks_since_render
            /\ ticks_since_render' = 0
            /\ UNCHANGED <<main_locals, config, scancode_status, camera_pitch,
                           camera_yaw,
                           camera_location, timestamp_last_second, timestamp_last_frame,
                           frame_times, last_mouse_delta, grabbed, suspended, surface,
                           panicked, lifecycle, stdout, fresh_grab, tick_pose,
                           captured_sample, key_log>>

\* a mutant of FocusedGrab: regaining focus re-enters capture
FocusedGrabRegain(focus, is_grabbed) == focus

\* if !focus { grabber.request_ungrab(window) }: the capture state afterwards
FocusedGrab(focus, is_grabbed) == IF ~focus THEN FALSE ELSE is_grabbed

\* a mutant of FocusedKeys: losing focus releases every key
FocusedKeysCleared(focus, map) == IF focus THEN map ELSE << >>

\* a mutant of FocusedKeys: losing focus releases Escape
FocusedKeysEscapeUp(focus, map) ==
    IF focus \/ SC_ESCAPE \notin DOMAIN map THEN map
    ELSE [map EXCEPT ![SC_ESCAPE] = FALSE]

\* the Focused arm does not touch scancode_status: the key map afterwards
FocusedKeys(focus, map) == map

\* WindowEvent::Focused(focus)
Focused(focus) ==
    /\ Running
    /\ grabbed' = FocusedGrab(focus, grabbed)
    /\ scancode_status' = FocusedKeys(focus, scancode_status)
    /\ event' = IF focus THEN "FocusGained" ELSE "FocusLost"
    /\ UNCHANGED <<config, camera_pitch, camera_yaw, camera_location,
                   previous_profiling_stats, timestamp_last_second, timestamp_last_frame,
                   frame_times, last_mouse_delta, loop, fresh_grab, tick_pose,
                   ticks_since_render, gap, captured_sample, key_log>>

\* WindowEvent::KeyboardInput { physical_key, state }; pressed: state is Pressed
KeyboardInput(physical_key, pressed) ==
    LET scancode == to_scancode(physical_key)
    IN  /\ Running
        /\ IF scancode = None
           THEN Panic("KeyboardInput")
           ELSE /\ scancode_status' = MapInsert(scancode_status, scancode[1], pressed)
                /\ key_log' = [c \in (DOMAIN key_log) \cup {scancode[1]} |->
                                  IF c = scancode[1] THEN pressed ELSE key_log[c]]
                /\ event' = "KeyboardInput"
                /\ UNCHANGED <<config, camera_pitch, camera_yaw, camera_location,
                               previous_profiling_stats, timestamp_last_second,
                               timestamp_last_frame, frame_times, last_mouse_delta,
                               grabbed, loop, fresh_grab, tick_pose,
                               ticks_since_render, gap, captured_sample>>

\* WindowEvent::MouseInput { button: Left, state: Pressed }
MouseInput ==
    /\ Running
    /\ grabbed' = IF ~grabbed THEN TRUE ELSE grabbed
    /\ fresh_grab' = IF ~grabbed THEN TRUE ELSE fresh_grab
    /\ event' = "MouseInput"
    /\ UNCHANGED <<config, scancode_status, camera_pitch, camera_yaw, camera_location,
                   previous_profiling_stats, timestamp_last_second, timestamp_last_frame,
                   frame_times, last_mouse_delta, loop, tick_pose,
                   ticks_since_render, gap, captured_sample, key_log>>

\* the yaw / pitch update of a captured sample with effective delta mouse_delta
Look(mouse_delta) ==
    /\ camera_yaw' = WrapYaw(camera_yaw - LookAngle(mouse_delta[1]))
    /\ camera_pitch' = ClampPitch(camera_pitch - LookAngle(mouse_delta[2]))

\* a mutant of MotionIntegrated: the capture check is missing
MotionIntegratedAlways(is_grabbed) == TRUE

\* if !grabber.grabbed() { return }: whether the handler goes on
MotionIntegrated(is_grabbed) == is_grabbed

\* DeviceEvent::MouseMotion { delta: (delta_x, delta_y) }
MouseMotion(delta_x, delta_y) ==
    /\ Running
    /\ event' = "MouseMotion"
    /\ UNCHANGED <<config, scancode_status, camera_location, previous_profiling_stats,
                   timestamp_last_second, timestamp_last_frame, frame_times, grabbed,
                   loop, tick_pose, ticks_since_render, gap, key_log>>
    /\ captured_sample' = IF grabbed /\ absolute_mouse
                           THEN Some(<<delta_x, delta_y>>) ELSE captured_sample
    /\ IF ~MotionIntegrated(grabbed)
       THEN UNCHANGED <<camera_yaw, camera_pitch, last_mouse_delta, fresh_grab>>
       ELSE /\ fresh_grab' = FALSE
            /\ IF absolute_mouse
               THEN /\ last_mouse_delta' = Some(<<delta_x, delta_y>>)
                    /\ IF last_mouse_delta # None
                       THEN Look(AbsoluteDelta(<<delta_x, delta_y>>, last_mouse_delta[1]))
                       ELSE UNCHANGED <<camera_yaw, camera_pitch>>
               ELSE /\ Look(<<delta_x, delta_y>>)
                    /\ UNCHANGED last_mouse_delta
    /\ Abs(camera_yaw') <= MaxTurns * TAU

\* Event::Suspended
Suspended ==
    /\ Running
    /\ surface' = FALSE
    /\ suspended' = TRUE
    /\ event' = "Suspended"
    /\ UNCHANGED <<main_locals, viewer, redraw_requested, camera_data, panicked, lifecycle,
                   stdout, fresh_grab, tick_pose, ticks_since_render, gap,
                   captured_sample, key_log>>

\* Event::Resumed
Resumed ==
    /\ Running
    /\ surface' = TRUE
    /\ suspended' = FALSE
    /\ event' = "Resumed"
    /\ UNCHANGED <<main_locals, viewer, redraw_requested, camera_data, panicked, lifecycle,
                   stdout, fresh_grab, tick_pose, ticks_since_render, gap,
                   captured_sample, key_log>>

\* the closure's local control_flow when it returns from an event of this
\* kind; the local is dropped there: nothing hands it to the event loop
LocalControlFlow(kind) ==
    IF kind = "Suspended" THEN "Wait"
    ELSE IF kind = "Resumed" THEN last_user_control_mode
    ELSE control_flow

\* WindowEvent::Resized(size), and UserResizeEvent::Resize turned into it
Resized(size) ==
    /\ Running
    /\ IF size[1] = 0 \/ size[2] = 0
       THEN \* handle_surface returns Some(false) before touching the surface
            /\ suspended' = FALSE
            /\ event' = "Resized"
            /\ UNCHANGED <<main_locals, viewer, surface, redraw_requested, camera_data,
                           panicked, lifecycle, stdout, fresh_grab, tick_pose,
                           ticks_since_render, gap, captured_sample, key_log>>
       ELSE IF ~surface
       THEN Panic("Resized")
       ELSE /\ stored_surface_info' = size
            /\ suspended' = FALSE
            /\ event' = "Resized"
            /\ UNCHANGED <<control_flow, last_user_control_mode, viewer, surface,
                           redraw_requested, camera_data, panicked, lifecycle, stdout,
                           fresh_grab, tick_pose, ticks_since_render, gap,
                           captured_sample, key_log>>

\* a mutant of ExitRequested: the close request is ignored
ExitIgnored(state) == state

\* event_loop_window_target.exit(): the state of the loop afterwards
ExitRequested(state) == "exiting"

\* WindowEvent::CloseRequested
CloseRequested ==
    /\ Running
    /\ lifecycle' = ExitRequested(lifecycle)
    /\ event' = "CloseRequested"
    /\ UNCHANGED <<main_locals, viewer, suspended, surface, redraw_requested, camera_data, panicked,
                   stdout, fresh_grab, tick_pose, ticks_since_render, gap,
                   captured_sample, key_log>>

-----------------------------------------------------------------------------
(* Specification SpecLook: mouse look and capture from the default pose,   *)
(* in both pointer modes: the Escape key, clicks, focus changes, pointer   *)
(* samples and frame ticks.                                                *)

\* pointer samples (delta_x, delta_y): none, a quarter turn left, a quarter
\* turn right and down, and a fling of two and a half turns
LookMotions == {<<0, 0>>, <<-FRAC_PI_2, 0>>, <<FRAC_PI_2, FRAC_PI_2>>,
                <<5 * FRAC_PI_2, -9 * FRAC_PI_2>>}

\* frame durations (ms)
LookTicks == {500}

InitLook ==
    \E absolute \in BOOLEAN : Start([NoArgs EXCEPT !.absolute_mouse = absolute])

NextLook ==
    \/ \E pressed \in BOOLEAN : KeyboardInput(KeyOf(SC_ESCAPE), pressed)
    \/ MouseInput
    \/ \E focus \in BOOLEAN : Focused(focus)
    \/ \E d \in LookMotions : MouseMotion(d[1], d[2])
    \/ \E dt \in LookTicks : AboutToWait(dt, TRUE)

SpecLook == InitLook /\ [][NextLook]_vars

-----------------------------------------------------------------------------
(* Specification SpecCamera: the same events in relative mode, started     *)
(* with and without a --camera value.                                      *)

\* --camera values: absent, and "0,0,0,1.5708,6.2832" (straight up, one full
\* turn)
Cameras == {None,
            Some(<<"0", ",", "0", ",", "0", ",", "1", ".", "5", "7", "0", "8", ",", "6", ".", "2", "8", "3", "2">>)}

InitCamera ==
    \E camera \in Cameras : Start([NoArgs EXCEPT !.camera = camera])

SpecCamera == InitCamera /\ [][NextLook]_vars

-----------------------------------------------------------------------------
(* Claims checked under SpecLook.                                          *)

\* C1: in every reachable state the camera yaw lies in [0, 2*pi).
C1_YawInRange == 0 <= camera_yaw /\ camera_yaw < TAU

\* C2: in every reachable state, the initial one included, the camera pitch
\* lies strictly inside (-pi/2, pi/2).
C2_PitchInside == -FRAC_PI_2 < camera_pitch /\ camera_pitch < FRAC_PI_2

\* C3: in absolute-pointer mode the first motion sample handled after capture
\* is acquired or re-acquired changes neither yaw nor pitch and leaves the
\* sample in the previous-sample buffer.
C3_FirstSampleDropped ==
    [][(absolute_mouse /\ grabbed /\ fresh_grab /\ event' = "MouseMotion")
         => /\ camera_yaw' = camera_yaw
            /\ camera_pitch' = camera_pitch
            /\ last_mouse_delta' # None]_vars

\* C4: whenever capture is not active the previous-sample buffer is empty.
C4_BufferResetOnUngrab == ~grabbed => last_mouse_delta = None

\* C5: a mouse-motion event handled while capture is not active leaves
\* position, yaw and pitch as they were.
C5_UncapturedMotionKeepsPose ==
    [][(~grabbed /\ event' = "MouseMotion") => Pose' = Pose]_vars

\* C5 witness: an uncaptured sample was handled in absolute mode after an
\* earlier capture had turned the camera away from its initial pose.
C5_Witness ==
    /\ event = "MouseMotion"
    /\ ~grabbed
    /\ last_mouse_delta # None
    /\ camera_yaw # FRAC_PI_4

\* C6: capture becomes active only by a left click while not captured, and
\* inactive only by a tick with Escape held or by losing focus.
C6_CaptureMachine ==
    [][/\ (~grabbed /\ grabbed') => event' = "MouseInput"
       /\ (grabbed /\ ~grabbed') =>
              \/ event' = "FocusLost"
              \/ event' = "AboutToWait" /\ button_pressed(scancode_status, SC_ESCAPE)]_vars

\* C6 witness: capture was held, was lost, and a later focus gain has left it
\* inactive.
C6_Witness ==
    /\ event = "FocusGained"
    /\ ~grabbed
    /\ last_mouse_delta # None

-----------------------------------------------------------------------------
(* Specification SpecTurn: pointer samples alone.  Clicks, focus changes   *)
(* and the pointer samples of SpecLook, in both pointer modes, with no     *)
(* ticks and no keys.                                                      *)

NextTurn ==
    \/ MouseInput
    \/ \E focus \in BOOLEAN : Focused(focus)
    \/ \E d \in LookMotions : MouseMotion(d[1], d[2])

SpecTurn == InitLook /\ [][NextTurn]_vars

\* C12: in absolute-pointer mode every captured sample after the first is
\* integrated with the delta (current - previous) / 4, previous being the
\* captured sample handled immediately before, and the buffer then holds the
\* current sample.
C12_AbsoluteDifference ==
    [][(absolute_mouse /\ grabbed /\ captured_sample # None /\ event' = "MouseMotion")
         => LET previous == captured_sample[1]
                current == captured_sample'[1]
                dx == Quot(current[1] - previous[1], 4)
                dy == Quot(current[2] - previous[2], 4)
            IN  /\ camera_yaw' = WrapYaw(camera_yaw - LookAngle(dx))
                /\ camera_pitch' = ClampPitch(camera_pitch - LookAngle(dy))
                /\ last_mouse_delta' = Some(current)]_vars

\* C12 witness: in absolute mode a captured sample that followed another one
\* at a different pointer position has turned the camera.
C12_Witness ==
    /\ absolute_mouse
    /\ grabbed
    /\ event = "MouseMotion"
    /\ captured_sample = Some(<<FRAC_PI_2, FRAC_PI_2>>)
    /\ camera_yaw = FRAC_PI_4 - 2 * FRAC_PI_8
    /\ camera_pitch = -FRAC_PI_8 - FRAC_PI_8

\* the delta a captured sample d is integrated with: d itself in relative
\* mode, its difference to the buffered sample over 4 in absolute mode
EffectiveDelta(d) ==
    IF absolute_mouse
    THEN <<Quot(d[1] - last_mouse_delta[1][1], 4), Quot(d[2] - last_mouse_delta[1][2], 4)>>
    ELSE d

\* a captured sample that is integrated: every one in relative mode, every
\* one that finds a buffered sample in absolute mode
IntegratedSample(d) ==
    /\ grabbed
    /\ absolute_mouse => last_mouse_delta # None
    /\ MouseMotion(d[1], d[2])

\* C13: a captured motion sample with effective vertical delta dy leaves
\* pitch = clamp(pitch_before - dy/1000, -pi/2 + 0.0001, pi/2 - 0.0001): pitch
\* never passes a bound and stays at it under further deltas in that direction.
C13_PitchClamped ==
    [][\A d \in LookMotions :
          IntegratedSample(d)
            => LET dy == EffectiveDelta(d)[2]
                   target == camera_pitch - Quot(dy * Unit, 1000 * PointerUnit)
                   low == -FRAC_PI_2 + EPSILON
                   high == FRAC_PI_2 - EPSILON
               IN  /\ camera_pitch' = IF target < low THEN low
                                      ELSE IF target > high THEN high
                                      ELSE target
                   /\ low <= camera_pitch' /\ camera_pitch' <= high
                   /\ (camera_pitch = high /\ dy <= 0) => camera_pitch' = high
                   /\ (camera_pitch = low /\ dy >= 0) => camera_pitch' = low]_vars

\* C13 witness: a captured sample has left the pitch saturated at its upper
\* bound, in absolute mode.
C13_Witness ==
    /\ event = "MouseMotion"
    /\ grabbed
    /\ absolute_mouse
    /\ camera_pitch = FRAC_PI_2 - EPSILON

\* C18: a captured motion sample with effective horizontal delta dx sets yaw
\* to yaw_before - dx/1000 and then applies at most one correction of 2*pi:
\* one added if the result is negative, else one subtracted if it is >= 2*pi;
\* so it does when |dx/1000| exceeds 2*pi.
C18_YawSingleCorrection ==
    [][\A d \in LookMotions :
          IntegratedSample(d)
            => LET dx == EffectiveDelta(d)[1]
                   turned == camera_yaw - Quot(dx * Unit, 1000 * PointerUnit)
               IN  camera_yaw' = IF turned < 0 THEN turned + TAU
                                 ELSE IF turned >= TAU THEN turned - TAU
                                 ELSE turned]_vars

\* C18 witness: a captured sample of more than a full turn has left the yaw
\* below zero after its one correction.
C18_Witness ==
    /\ event = "MouseMotion"
    /\ grabbed
    /\ ~absolute_mouse
    /\ camera_yaw = FRAC_PI_4 - 5 * FRAC_PI_2 + TAU
    /\ camera_yaw < 0

-----------------------------------------------------------------------------
(* Specification SpecLoop: the frame loop.  Ticks, renders (requested by a *)
(* tick or by the window system), suspension, and input arriving between   *)
(* them: the forward key, a click and one pointer sample.                  *)

LoopMotions == {<<FRAC_PI_2, 0>>}
LoopTicks == {1000}

InitLoop == Start(NoArgs)

NextLoop ==
    \/ \E pressed \in BOOLEAN : KeyboardInput(KeyOf(SC_W), pressed)
    \/ MouseInput
    \/ \E d \in LoopMotions : MouseMotion(d[1], d[2])
    \/ \E dt \in LoopTicks : AboutToWait(dt, TRUE)
    \/ \E platform \in BOOLEAN : RedrawRequested(platform, FALSE)
    \/ Suspended
    \/ Resumed

SpecLoop == InitLoop /\ [][NextLoop]_vars

-----------------------------------------------------------------------------
(* Claims checked under SpecLoop.                                          *)

\* C7: the pose a render requested by a tick hands to the renderer is the
\* pose that tick produced: no input changes the pose in between.
C7_RenderedPoseIsTickPose ==
    [][(redraw_requested /\ event' = "RedrawRequested")
         => camera_data' = Some(tick_pose)]_vars

\* C8: between any two consecutive handled renders AboutToWait runs exactly
\* once.
C8_OneTickPerRender == gap \in {-1, 1}

-----------------------------------------------------------------------------
(* Specification SpecKeys: key events of the keys the tick reads (Escape,  *)
(* Period, P), of a key without meaning and of a key without a scancode,   *)
(* with ticks, renders and clicks.                                         *)

KeysKeys == {KeyOf(SC_ESCAPE), KeyOf(SC_PERIOD), KeyOf(SC_P), KeyOf(SC_OTHER),
             UnidentifiedKey}
KeysTicks == {600}

InitKeys == Start(NoArgs)

NextKeys ==
    \/ \E k \in KeysKeys, pressed \in BOOLEAN : KeyboardInput(k, pressed)
    \/ MouseInput
    \/ \E dt \in KeysTicks, write_ok \in BOOLEAN : AboutToWait(dt, write_ok)
    \/ \E stats \in BOOLEAN : RedrawRequested(FALSE, stats)

SpecKeys == InitKeys /\ [][NextKeys]_vars

\* C9: handling any key event, pointer motion, click, focus change or tick
\* completes without a panic.
C9_NoPanic == ~panicked

\* the scancodes of the model
Scancodes == {SC_ESCAPE, SC_Q, SC_W, SC_P, SC_A, SC_S, SC_D, SC_SHIFT, SC_PERIOD,
              SC_OTHER}

\* C20: in every state, so at every tick, a key counts as held iff the last
\* key event received for its code was Pressed; a code no event was received
\* for is not held; an event for one code leaves every other code as it was.
C20_KeyMapLatestEvent ==
    /\ \A c \in Scancodes :
          button_pressed(scancode_status, c) = (c \in DOMAIN key_log /\ key_log[c])
    /\ \A c \in Scancodes \ DOMAIN key_log : ~button_pressed(scancode_status, c)

\* C20 witness: at a tick Escape is held, P was pressed and released, the key
\* without meaning was released without having been pressed, and no event was
\* ever received for Period.
C20_Witness ==
    /\ event = "AboutToWait"
    /\ button_pressed(scancode_status, SC_ESCAPE)
    /\ SC_P \in DOMAIN scancode_status /\ ~button_pressed(scancode_status, SC_P)
    /\ previous_profiling_stats
    /\ SC_OTHER \in DOMAIN key_log /\ ~key_log[SC_OTHER]
    /\ SC_PERIOD \notin DOMAIN key_log
    /\ ~button_pressed(scancode_status, SC_PERIOD)

-----------------------------------------------------------------------------
(* Specification SpecMove: keyboard movement.  Three start poses, the      *)
(* forward, strafe-right and run keys, ticks of half a second and of one   *)
(* second.                                                                 *)

\* --camera values: absent, "0,0,0,0,0" (level, along -Z) and
\* "0,0,0,0.7854,3.927" (45 degrees up, yaw 225 degrees)
MoveCameras == {None,
                Some(<<"0", ",", "0", ",", "0", ",", "0", ",", "0">>),
                Some(<<"0", ",", "0", ",", "0", ",", "0", ".", "7", "8", "5", "4", ",", "3", ".", "9", "2", "7">>)}
MoveKeys == {KeyOf(SC_W), KeyOf(SC_D), KeyOf(SC_SHIFT)}
MoveTicks == {500, 1000}

InitMove ==
    \E camera \in MoveCameras : Start([NoArgs EXCEPT !.camera = camera])

NextMove ==
    \/ \E k \in MoveKeys, pressed \in BOOLEAN : KeyboardInput(k, pressed)
    \/ \E dt \in MoveTicks : AboutToWait(dt, TRUE)

SpecMove == InitMove /\ [][NextMove]_vars

\* the squared length of a displacement, in units of 0.01 world units
Mag2(d) ==
    LET x == Quot(d[1], 100)  y == Quot(d[2], 100)  z == Quot(d[3], 100)
    IN  x * x + y * y + z * z

\* the squared length velocity * dt, in the same units (dt in ms)
Step2(velocity, dt) == ((velocity * dt) \div 10) * ((velocity * dt) \div 10)

\* C10: a tick with exactly forward and strafe-right held moves the camera by
\* forward*v*dt - side*v*dt, whose length is v*dt*sqrt(2) (squared: 2*(v*dt)^2,
\* to within 2%), not v*dt.
C10_DiagonalAdditive ==
    [][(event' = "AboutToWait" /\ HeldMovement(scancode_status) = {SC_W, SC_D})
         => LET dt == timestamp_last_frame' - timestamp_last_frame
                v == Velocity(scancode_status, walk_speed, run_speed)
                f == Displacement(Forward(camera_yaw, camera_pitch), v, dt)
                s == Displacement(Side(camera_yaw, camera_pitch), v, dt)
                d == VecSub(camera_location', camera_location)
            IN  /\ d = VecSub(f, s)
                /\ Abs(Mag2(d) - 2 * Step2(v, dt)) * 50 <= 2 * Step2(v, dt)
                /\ Mag2(d) > Step2(v, dt)]_vars

\* C10 witness: from the default pose, one tick of one second at walk speed
\* with forward and strafe-right held has moved the camera.
C10_Witness ==
    /\ event = "AboutToWait"
    /\ HeldMovement(scancode_status) = {SC_W, SC_D}
    /\ ~button_pressed(scancode_status, SC_SHIFT)
    /\ timestamp_last_frame = 1000
    /\ Mag2(VecSub(camera_location, <<3 * Unit, 3 * Unit, 3 * Unit>>)) > 1900000

-----------------------------------------------------------------------------
(* Specification SpecClose: the life of the loop.  The Escape key, clicks, *)
(* focus changes, ticks, renders, suspension and the close request.        *)

CloseTicks == {1000}

InitClose == Start(NoArgs)

NextClose ==
    \/ \E pressed \in BOOLEAN : KeyboardInput(KeyOf(SC_ESCAPE), pressed)
    \/ MouseInput
    \/ \E focus \in BOOLEAN : Focused(focus)
    \/ \E dt \in CloseTicks : AboutToWait(dt, TRUE)
    \/ \E platform \in BOOLEAN : RedrawRequested(platform, FALSE)
    \/ Suspended
    \/ Resumed
    \/ CloseRequested

SpecClose == InitClose /\ [][NextClose]_vars

\* C15: the loop is told to exit when, and only when, a CloseRequested event
\* is handled, and no event is handled after that; a tick with Escape held, a
\* focus loss and a suspension leave the loop running.
C15_ExitOnlyOnClose ==
    [][/\ lifecycle = "running"
       /\ ~panicked
       /\ (lifecycle' = "exiting") <=> (event' = "CloseRequested")
       /\ (event' # "CloseRequested") => (lifecycle' = "running" /\ ~panicked')]_vars

\* C15 witness: the close request arrived, and ended the loop, after capture
\* had been released by a tick with Escape held and while the viewer was
\* suspended.
C15_Witness ==
    /\ event = "CloseRequested"
    /\ lifecycle = "exiting"
    /\ suspended
    /\ ~grabbed
    /\ button_pressed(scancode_status, SC_ESCAPE)
    /\ timestamp_last_frame > 0

-----------------------------------------------------------------------------
(* Specification SpecWalk: one tick of movement under every combination of *)
(* the five movement keys and the run modifier, from the default pose.     *)

WalkKeys == {KeyOf(SC_W), KeyOf(SC_S), KeyOf(SC_A), KeyOf(SC_D), KeyOf(SC_Q),
             KeyOf(SC_SHIFT)}
\* frame durations (ms): each leaves room for one tick only
WalkTicks == {1100, 1500}

InitWalk == Start(NoArgs)

NextWalk ==
    \/ \E k \in WalkKeys, pressed \in BOOLEAN : KeyboardInput(k, pressed)
    \/ \E dt \in WalkTicks : AboutToWait(dt, TRUE)

SpecWalk == InitWalk /\ [][NextWalk]_vars

\* n times the vector v
Times(n, v) == <<n * v[1], n * v[2], n * v[3]>>

\* C19: a tick moves the camera by the sum, over the movement keys held, of
\* basis * speed * delta_time, the basis being that of the yaw and pitch the
\* tick starts with: + forward for forward, - forward for back, + side for
\* strafe-left, - side for strafe-right, + up for up; speed is the run speed
\* if the run modifier is held and the walk speed otherwise; with no movement
\* key held the position stays.
C19_MovementPerKey ==
    [][event' = "AboutToWait"
         => LET dt == timestamp_last_frame' - timestamp_last_frame
                held(c) == c \in DOMAIN scancode_status /\ scancode_status[c]
                n(c) == IF held(c) THEN 1 ELSE 0
                speed == IF held(SC_SHIFT) THEN run_speed ELSE walk_speed
                f == Displacement(Forward(camera_yaw, camera_pitch), speed, dt)
                s == Displacement(Side(camera_yaw, camera_pitch), speed, dt)
                u == Displacement(Up(camera_yaw, camera_pitch), speed, dt)
            IN  /\ VecSub(camera_location', camera_location) =
                       VecAdd(Times(n(SC_W) - n(SC_S), f),
                              VecAdd(Times(n(SC_A) - n(SC_D), s), Times(n(SC_Q), u)))
                /\ (\A c \in {SC_W, SC_S, SC_A, SC_D, SC_Q} : ~held(c))
                      => camera_location' = camera_location
                /\ camera_yaw' = camera_yaw
                /\ camera_pitch' = camera_pitch]_vars

\* C19 witness: a tick of 1.5 s with back, strafe-left, up and the run
\* modifier held (forward was pressed and released before) has moved the
\* camera off its start position along all three axes.
C19_Witness ==
    /\ event = "AboutToWait"
    /\ timestamp_last_frame = 1500
    /\ HeldMovement(scancode_status) = {SC_S, SC_A, SC_Q}
    /\ SC_W \in DOMAIN scancode_status
    /\ button_pressed(scancode_status, SC_SHIFT)
    /\ \A i \in 1..3 : Abs(camera_location[i] - 3 * Unit) > 10 * Unit

-----------------------------------------------------------------------------
(* Specification SpecTime: the frame report.  Ticks of 200, 300 and 500 ms *)
(* and of more than a second, with the Period key.                         *)

TimeTicks == {200, 300, 500, 1200}

InitTime == Start(NoArgs)

NextTime ==
    \/ \E pressed \in BOOLEAN : KeyboardInput(KeyOf(SC_PERIOD), pressed)
    \/ \E dt \in TimeTicks : AboutToWait(dt, TRUE)

SpecTime == InitTime /\ [][NextTime]_vars

\* C16: a tick prints the frame report iff more than one second has passed
\* since the last report (since construction before the first); after a report
\* the histogram is empty and the last-report timestamp is the tick's time; any
\* other tick only adds its own sample to the histogram; no other event
\* touches either.
C16_ReportEachSecond ==
    [][IF event' = "AboutToWait"
       THEN LET now == timestamp_last_frame'
                sample == now - timestamp_last_frame
                elapsed == now - timestamp_last_second
                printed == stdout'.report # None
            IN  /\ printed <=> (elapsed > 1000)
                /\ printed => /\ frame_times' = EmptyBag
                              /\ timestamp_last_second' = now
                              /\ stdout'.report[1].count = BagCardinality(frame_times) + 1
                /\ ~printed => /\ frame_times' = frame_times (+) SetToBag({sample})
                               /\ timestamp_last_second' = timestamp_last_second
       ELSE UNCHANGED <<frame_times, timestamp_last_second>>]_vars

\* C16 witness: two ticks of 500 ms printed nothing (one second sharp), the
\* tick at 1200 ms printed the report and emptied the histogram, and the tick
\* at 1500 ms, 300 ms after the report, printed nothing and added its sample.
C16_Witness ==
    /\ event = "AboutToWait"
    /\ stdout.report = None
    /\ timestamp_last_second = 1200
    /\ timestamp_last_frame = 1500
    /\ frame_times = SetToBag({300})

\* C24: a tick that is due to print the report does print it, never failing
\* on an empty histogram: the report counts at least one frame, the tick's own
\* sample among them, so Min <= that sample <= Max.
C24_ReportNeverEmpty ==
    [][/\ (event' = "AboutToWait") => ~panicked'
       /\ (event' = "AboutToWait"
             /\ timestamp_last_frame' - timestamp_last_second > ONE_SECOND)
            => LET sample == timestamp_last_frame' - timestamp_last_frame
               IN  /\ stdout'.report # None
                   /\ stdout'.report[1].count >= 1
                   /\ stdout'.report[1].count = BagCardinality(frame_times) + 1
                   /\ stdout'.report[1].minimum.ok
                   /\ stdout'.report[1].maximum.ok
                   /\ stdout'.report[1].minimum.val <= sample
                   /\ sample <= stdout'.report[1].maximum.val]_vars

\* C24 witness: the first tick of all came 1.2 s after construction and
\* printed a report over its own frame alone.
C24_Witness ==
    /\ event = "AboutToWait"
    /\ timestamp_last_frame = 1200
    /\ stdout.report # None
    /\ stdout.report[1].count = 1
    /\ stdout.report[1].minimum = Ok(1200)
    /\ stdout.report[1].maximum = Ok(1200)

-----------------------------------------------------------------------------
(* Specification SpecSpeed: keyboard movement of a viewer started with and *)
(* without --walk and --run values.                                        *)

\* --walk / --run values: absent, "20", "0", "-5" and "fast"
SpeedArgs == {None,
              Some(<<"2", "0">>),
              Some(<<"0">>),
              Some(<<"-", "5">>),
              Some(<<"f", "a", "s", "t">>)}

InitSpeed ==
    \E walk \in SpeedArgs, run \in SpeedArgs :
        Start([NoArgs EXCEPT !.walk = walk, !.run = run])

SpecSpeed == InitSpeed /\ [][NextMove]_vars

\* a speed value that is a number above zero
PositiveSpeed(arg) == ParseF32(arg).ok /\ ParseF32(arg).val > 0

\* C14: a running viewer has a positive walk speed and a positive run speed:
\* 10 and 50 when --walk / --run are absent, and a value that is malformed or
\* not positive stops the program at startup instead of being stored.
C14_SpeedsPositive ==
    /\ lifecycle = "running" => (walk_speed > 0 /\ run_speed > 0)
    /\ args.walk = None => walk_speed = 10
    /\ args.run = None => run_speed = 50
    /\ (args.walk # None /\ ~PositiveSpeed(args.walk[1])) => lifecycle # "running"
    /\ (args.run # None /\ ~PositiveSpeed(args.run[1])) => lifecycle # "running"

-----------------------------------------------------------------------------
(* Specification SpecVsync: keyboard movement of a viewer started with and *)
(* without a --vsync value.                                                *)

\* --vsync values: absent, "immediate", "FIFO", "fifo_relaxed", "Mailbox", "off"
VsyncArgs == {None,
              Some(<<"i", "m", "m", "e", "d", "i", "a", "t", "e">>),
              Some(<<"F", "I", "F", "O">>),
              Some(<<"f", "i", "f", "o", "_", "r", "e", "l", "a", "x", "e", "d">>),
              Some(<<"M", "a", "i", "l", "b", "o", "x">>),
              Some(<<"o", "f", "f">>)}

InitVsync ==
    \E vsync \in VsyncArgs : Start([NoArgs EXCEPT !.vsync = vsync])

SpecVsync == InitVsync /\ [][NextMove]_vars

\* the modes HELP lists for --vsync, each with its present mode
HelpVsyncModes ==
    {<<<<"i", "m", "m", "e", "d", "i", "a", "t", "e">>, "Immediate">>,
     <<<<"f", "i", "f", "o">>, "Fifo">>,
     <<<<"f", "i", "f", "o", "_", "r", "e", "l", "a", "x", "e", "d">>, "FifoRelaxed">>,
     <<<<"m", "a", "i", "l", "b", "o", "x">>, "Mailbox">>}

\* C17: a --vsync value that is, in any letter case, one of the modes the help
\* text lists (immediate, fifo, fifo_relaxed, mailbox) starts the viewer with
\* that present mode; any other value is an error.
C17_VsyncHelpModes ==
    args.vsync # None
      => LET lower == to_lowercase(args.vsync[1])
         IN  IF \E m \in HelpVsyncModes : m[1] = lower
             THEN /\ lifecycle = "running"
                  /\ \E m \in HelpVsyncModes : m[1] = lower /\ present_mode = m[2]
             ELSE lifecycle = "failed"

-----------------------------------------------------------------------------
(* Specification SpecSurface: the life of the surface.  Suspension,        *)
(* resumption, resizes (to a zero size too), renders and ticks.            *)

\* new window sizes: minimised, and 800 x 600
SurfaceSizes == {<<0, 0>>, <<800, 600>>}
SurfaceTicks == {1000}

InitSurface == Start(NoArgs)

NextSurface ==
    \/ Suspended
    \/ Resumed
    \/ \E size \in SurfaceSizes : Resized(size)
    \/ \E platform \in BOOLEAN : RedrawRequested(platform, FALSE)
    \/ \E dt \in SurfaceTicks : AboutToWait(dt, TRUE)

SpecSurface == InitSurface /\ [][NextSurface]_vars

\* C21: a RedrawRequested event that reaches the application's handler finds
\* a surface, and so does a Resized event that reconfigures the surface: no
\* unwrap() of the surface fails, whatever the order of Suspended, Resumed,
\* Resized and RedrawRequested events.
C21_SurfacePresent ==
    [][/\ (event' = "RedrawRequested") => (surface /\ ~panicked')
       /\ (event' = "Resized") => ~panicked'
       /\ (event' = "Resized" /\ stored_surface_info' # stored_surface_info) => surface]_vars

-----------------------------------------------------------------------------
(* Specification SpecFlow: the same events on an event loop created        *)
(* polling or waiting.                                                     *)

\* winit's ControlFlow modes without a deadline
ControlFlows == {"Poll", "Wait"}

InitFlow == \E flow \in ControlFlows : StartWith(NoArgs, flow)

SpecFlow == InitFlow /\ [][NextSurface]_vars

\* C22: once a Suspended event is processed the event loop's control flow is
\* Wait, and once a Resumed event is processed it is the mode the application
\* selected last.
C22_ControlFlowFollowsSuspension ==
    [][/\ (event' = "Suspended") => control_flow' = "Wait"
       /\ (event' = "Resumed") => control_flow' = last_user_control_mode]_vars

-----------------------------------------------------------------------------
(* Specification SpecEscape: releasing capture with Escape.  The Escape    *)
(* key, clicks, pointer samples in relative mode and ticks.                *)

EscapeMotions == {<<FRAC_PI_2, FRAC_PI_4>>}
EscapeTicks == {1000}

InitEscape == Start(NoArgs)

NextEscape ==
    \/ \E pressed \in BOOLEAN : KeyboardInput(KeyOf(SC_ESCAPE), pressed)
    \/ MouseInput
    \/ \E d \in EscapeMotions : MouseMotion(d[1], d[2])
    \/ \E dt \in EscapeTicks : AboutToWait(dt, TRUE)

SpecEscape == InitEscape /\ [][NextEscape]_vars

\* C23: an Escape key event leaves capture as it is; capture is released only
\* by a tick that finds Escape held, and every such tick releases it, after
\* any click; a captured pointer sample handled while Escape is held and no
\* tick has come yet still turns yaw and pitch.
C23_EscapeReleasesAtTick ==
    [][/\ (event' = "KeyboardInput") => grabbed' = grabbed
       /\ (grabbed /\ ~grabbed')
            => (event' = "AboutToWait" /\ button_pressed(scancode_status, SC_ESCAPE))
       /\ (event' = "AboutToWait" /\ button_pressed(scancode_status, SC_ESCAPE))
            => ~grabbed'
       /\ \A d \in EscapeMotions :
             (grabbed /\ button_pressed(scancode_status, SC_ESCAPE)
                /\ MouseMotion(d[1], d[2]))
               => /\ grabbed'
                  /\ camera_yaw' = WrapYaw(camera_yaw - LookAngle(d[1]))
                  /\ camera_pitch' = ClampPitch(camera_pitch - LookAngle(d[2]))
                  /\ camera_yaw' # camera_yaw]_vars

\* C23 witness: after a tick, with Escape held and capture active, a pointer
\* sample has turned the camera away from the yaw of that tick.
C23_Witness ==
    /\ event = "MouseMotion"
    /\ grabbed
    /\ button_pressed(scancode_status, SC_ESCAPE)
    /\ timestamp_last_frame > 0
    /\ tick_pose[2] # camera_yaw

-----------------------------------------------------------------------------
(* Specification SpecDrift: movement without capture.  The forward key,    *)
(* clicks, focus changes and ticks.                                        *)

DriftTicks == {1000}

InitDrift == Start(NoArgs)

NextDrift ==
    \/ \E pressed \in BOOLEAN : KeyboardInput(KeyOf(SC_W), pressed)
    \/ MouseInput
    \/ \E focus \in BOOLEAN : Focused(focus)
    \/ \E dt \in DriftTicks : AboutToWait(dt, TRUE)

SpecDrift == InitDrift /\ [][NextDrift]_vars

\* C25: a tick moves the camera by the held forward key whether capture is
\* active or not, and a click or a focus change leaves the key map as it is:
\* a key pressed before focus was lost, whose release never arrives, moves the
\* camera at every later tick.
C25_MovementNotGated ==
    [][/\ (event' = "AboutToWait")
            => LET dt == timestamp_last_frame' - timestamp_last_frame
                   f == Displacement(Forward(camera_yaw, camera_pitch), walk_speed, dt)
               IN  /\ button_pressed(scancode_status, SC_W)
                         => (camera_location' = VecAdd(camera_location, f)
                               /\ camera_location' # camera_location)
                   /\ ~button_pressed(scancode_status, SC_W)
                         => camera_location' = camera_location
       /\ (event' \in {"FocusLost", "FocusGained", "MouseInput"})
            => scancode_status' = scancode_status
       /\ (event' # "KeyboardInput") => scancode_status' = scancode_status]_vars

\* C25 witness: capture was taken by a click and lost again with focus, no
\* pointer sample in between; the forward key, pressed all along, has moved
\* the camera at both ticks that followed.
C25_Witness ==
    /\ event = "AboutToWait"
    /\ ~grabbed
    /\ fresh_grab
    /\ button_pressed(scancode_status, SC_W)
    /\ timestamp_last_frame = 2000
    /\ LET f == Displacement(Forward(camera_yaw, camera_pitch), walk_speed, 1000)
       IN  camera_location = VecAdd(<<3 * Unit, 3 * Unit, 3 * Unit>>, VecAdd(f, f))

-----------------------------------------------------------------------------
(* Specification SpecFrame: every kind of event the integrator sees, in    *)
(* both pointer modes: the forward and Escape keys, clicks, focus changes, *)
(* a pointer sample, ticks and renders.                                    *)

FrameKeys == {KeyOf(SC_W), KeyOf(SC_ESCAPE)}
FrameMotions == {<<FRAC_PI_2, FRAC_PI_4>>}
FrameTicks == {1000}

NextFrame ==
    \/ \E k \in FrameKeys, pressed \in BOOLEAN : KeyboardInput(k, pressed)
    \/ MouseInput
    \/ \E focus \in BOOLEAN : Focused(focus)
    \/ \E d \in FrameMotions : MouseMotion(d[1], d[2])
    \/ \E dt \in FrameTicks : AboutToWait(dt, TRUE)
    \/ \E platform \in BOOLEAN : RedrawRequested(platform, FALSE)

SpecFrame == InitLook /\ [][NextFrame]_vars

\* C26: of position, yaw, pitch, key map, capture state and previous-sample
\* buffer, a tick leaves yaw, pitch, key map and buffer alone; a pointer
\* sample leaves position, key map and capture state alone; a key event
\* changes the key map only; a click or a focus change changes the capture
\* state only; a render changes none of them.
C26_FrameEffects ==
    [][/\ (event' = "AboutToWait")
            => UNCHANGED <<camera_yaw, camera_pitch, scancode_status, last_mouse_delta>>
       /\ (event' = "MouseMotion")
            => UNCHANGED <<camera_location, scancode_status, grabbed>>
       /\ (event' = "KeyboardInput")
            => UNCHANGED <<camera_location, camera_yaw, camera_pitch, grabbed,
                           last_mouse_delta>>
       /\ (event' \in {"MouseInput", "FocusLost", "FocusGained"})
            => UNCHANGED <<camera_location, camera_yaw, camera_pitch, scancode_status,
                           last_mouse_delta>>
       /\ (event' \in {"RedrawRequested", "RedrawSkipped"})
            => UNCHANGED <<camera_location, camera_yaw, camera_pitch, scancode_status,
                           grabbed, last_mouse_delta>>]_vars

\* C26 witness: in absolute mode, with capture active and the forward key
\* held, after samples that turned the camera and a tick that moved it, a
\* render has been handed the pose.
C26_Witness ==
    /\ event = "RedrawRequested"
    /\ absolute_mouse
    /\ grabbed
    /\ button_pressed(scancode_status, SC_W)
    /\ last_mouse_delta # None
    /\ camera_location # <<3 * Unit, 3 * Unit, 3 * Unit>>
    /\ camera_data = Some(Pose)

-----------------------------------------------------------------------------
(* Specification SpecPose: the pose line.  The viewer is started with and  *)
(* without a --camera value, is walked and turned, and prints its pose at  *)
(* the ticks that find the Period key held.                                *)

\* --camera values: absent, a pose with blanks around its fields, a value of
\* three fields and a value with a field that is no number
PoseCameras == {None,
                Some(<<" ", "1", ".", "5", ",", " ", "-", "2", ",", "0", ".", "2", "5", " ", ",", "0", ".", "5", ",", "6", " ">>),
                Some(<<"1", ",", "2", ",", "3">>),
                Some(<<"0", ",", "0", ",", "x", ",", "0", ",", "0">>)}
PoseKeys == {KeyOf(SC_PERIOD), KeyOf(SC_W)}
PoseMotions == {<<FRAC_PI_2, FRAC_PI_4>>}
PoseTicks == {700}

InitPose ==
    \E camera \in PoseCameras : Start([NoArgs EXCEPT !.camera = camera])

NextPose ==
    \/ \E k \in PoseKeys, pressed \in BOOLEAN : KeyboardInput(k, pressed)
    \/ MouseInput
    \/ \E d \in PoseMotions : MouseMotion(d[1], d[2])
    \/ \E dt \in PoseTicks : AboutToWait(dt, TRUE)

SpecPose == InitPose /\ [][NextPose]_vars

\* C11: the line a tick prints with Period held holds five comma-separated
\* fields, x, y, z, pitch, yaw in that order, and read back as a --camera value
\* it gives the position, pitch and yaw the viewer had when it printed; without
\* --camera the viewer starts at (3, 3, 3), pitch -pi/8, yaw pi/4.
C11_PoseLineRoundTrip ==
    /\ (event = "AboutToWait" /\ stdout.pose # None)
         => LET fields == split(stdout.pose[1])
                camera_info == extract_array(stdout.pose[1], camera_default)
            IN  /\ Len(fields) = 5
                /\ fields = <<FormatF32(camera_location[1]), FormatF32(camera_location[2]),
                              FormatF32(camera_location[3]), FormatF32(camera_pitch),
                              FormatF32(camera_yaw)>>
                /\ camera_info.ok
                /\ CameraOf(camera_info.val) =
                       [location |-> camera_location, pitch |-> camera_pitch,
                        yaw |-> camera_yaw]
    /\ (event = "none" /\ args.camera = None)
         => /\ camera_location = <<3 * Unit, 3 * Unit, 3 * Unit>>
            /\ camera_pitch = -FRAC_PI_8
            /\ camera_yaw = FRAC_PI_4

\* C11 witness: a pose was printed after the camera had been walked off its
\* start position and turned, with a negative field among the five.
C11_Witness ==
    /\ event = "AboutToWait"
    /\ stdout.pose # None
    /\ camera_location # <<3 * Unit, 3 * Unit, 3 * Unit>>
    /\ camera_location[2] % Unit # 0
    /\ camera_pitch < 0
    /\ camera_yaw # FRAC_PI_4
    /\ camera_pitch # camera_yaw

====
